---- MODULE Spec2Model ----
(***************************************************************************)
(* Channel path geometry of mmft-rs-framework (framework/src/base/         *)
(* channel.rs): the Arc classification (radius, large-arc flag, sweep      *)
(* flag), the SVG path commands and the lengths of LineSegment, Arc and    *)
(* ChannelPath, and the ChannelPath builder (new / add).                   *)
(*                                                                         *)
(* Numbers.  A Point is a pair of integer-valued f64 coordinates, kept as  *)
(* TLA+ integers (sums, differences and products of such coordinates are   *)
(* exact in f64 at these magnitudes, and so is the orientation predicate). *)
(* A derived f64 (a hypot, a radius, a length) is kept in fixed point,     *)
(* Scale units to 1, rounded down; an angle or a ratio in AngleScale       *)
(* units to 1.                                                             *)
(*                                                                         *)
(* Strings.  A String built by format! is kept as the sequence of its      *)
(* space-separated words, each word a TLA+ string.                         *)
(*                                                                         *)
(* panic!() is an outcome: every operation returns a record whose field    *)
(* ok is FALSE when the Rust function unwinds instead of returning.        *)
(***************************************************************************)
EXTENDS Integers, Sequences, FiniteSets, TLC

(***************************************************************************)
(* Bounds of the model.                                                    *)
(***************************************************************************)
\* Arc inputs take their three points on the grid 0..GridMax x 0..GridMax.
GridMax == 2
\* A ChannelPath under construction holds at most MaxPieces pieces.
MaxPieces == 2

(***************************************************************************)
(* f64 arithmetic in fixed point.                                          *)
(***************************************************************************)
Scale == 100
AngleScale == 10000
\* std::f64::consts::PI, in AngleScale units.
Pi == 31416

RECURSIVE IsqrtBetween(_, _, _)
\* The greatest c in lo..hi with c * c <= n (lo * lo <= n is given).
IsqrtBetween(n, lo, hi) ==
    IF lo >= hi THEN lo
    ELSE LET mid == (lo + hi + 1) \div 2
         IN  IF mid * mid <= n THEN IsqrtBetween(n, mid, hi)
             ELSE IsqrtBetween(n, lo, mid - 1)

\* The square root of n, rounded down (n * n stays below 2^31 for mid <= 46340).
Isqrt(n) == IsqrtBetween(n, 0, IF n < 46340 THEN n ELSE 46340)

\* f64::hypot(dx, dy) of two integer-valued arguments, in Scale units.
Hypot(dx, dy) == Isqrt((dx * dx + dy * dy) * Scale * Scale)

\* sin(a) for an angle a in 0 .. Pi/2 (AngleScale units), by its Taylor polynomial
\* of degree 9; the result is in AngleScale units.
Sin(a) ==
    LET a2 == (a * a) \div AngleScale
        t3 == ((a * a2) \div AngleScale) \div 6
        t5 == ((t3 * a2) \div AngleScale) \div 20
        t7 == ((t5 * a2) \div AngleScale) \div 42
        t9 == ((t7 * a2) \div AngleScale) \div 72
    IN  a - t3 + t5 - t7 + t9

RECURSIVE AsinBetween(_, _, _)
\* The greatest angle a in lo..hi with Sin(a) <= x.
AsinBetween(x, lo, hi) ==
    IF lo >= hi THEN lo
    ELSE LET mid == (lo + hi + 1) \div 2
         IN  IF Sin(mid) <= x THEN AsinBetween(x, mid, hi)
             ELSE AsinBetween(x, lo, mid - 1)

\* f64::asin(x) for a ratio x in 0 .. 1 (AngleScale units), in AngleScale units.
Asin(x) == AsinBetween(x, 0, Pi \div 2)

\* Display of an integer-valued f64 ("{x}"): 80.0 prints as "80".
DisplayInt(n) == IF n < 0 THEN "-" \o ToString(-n) ELSE ToString(n)

\* Display of a non-negative f64 kept in Scale units ("{radius}"): 45.0 prints
\* as "45", 1.41 as "1.41", 1.05 as "1.05".
DisplayFixed(v) ==
    LET whole == v \div Scale
        frac  == v % Scale
    IN  IF frac = 0 THEN ToString(whole)
        ELSE IF frac < 10 THEN ToString(whole) \o ".0" \o ToString(frac)
        ELSE ToString(whole) \o "." \o ToString(frac)

(***************************************************************************)
(* Points, pieces.                                                         *)
(***************************************************************************)
\* Point(pub [f64; 2]) with integer-valued coordinates on the grid.
Point == (0..GridMax) \X (0..GridMax)

\* struct Arc { right, start, end, center }, points on the grid.
GridArcs == [kind: {"Arc"}, right: BOOLEAN, start: Point, end: Point, center: Point]

MkArc(r, s, e, c) == [kind |-> "Arc", right |-> r, start |-> s, end |-> e, center |-> c]

\* The four arcs of the unit tests test::arc_values::case_1 .. case_4.
Case1Arc == MkArc(TRUE, <<80, 80>>, <<125, 125>>, <<125, 80>>)
Case2Arc == MkArc(TRUE, <<230, 80>>, <<275, 125>>, <<230, 125>>)
Case3Arc == MkArc(FALSE, <<80, 230>>, <<125, 275>>, <<80, 275>>)
Case4Arc == MkArc(FALSE, <<230, 230>>, <<275, 275>>, <<275, 230>>)
TestArcs == {Case1Arc, Case2Arc, Case3Arc, Case4Arc}

\* The Arc values the arc operations are applied to.
Arcs == GridArcs \cup TestArcs

(***************************************************************************)
(* geometry_predicates::orient2d: the sign-exact orientation test, positive *)
(* when pa, pb, pc occur in counterclockwise order.                        *)
(***************************************************************************)
Orient2dSwapped(pa, pb, pc) ==
    (pa[2] - pc[2]) * (pb[1] - pc[1]) - (pa[1] - pc[1]) * (pb[2] - pc[2])

Orient2d(pa, pb, pc) ==
    (pa[1] - pc[1]) * (pb[2] - pc[2]) - (pa[2] - pc[2]) * (pb[1] - pc[1])

\* Mutant: the second operand of ^ dropped.
XorFirstOnly(a, b) == a

\* Mutant: | written for ^.
XorAsOr(a, b) == a \/ b

\* bool ^ bool
Xor(a, b) == a # b

(***************************************************************************)
(* Arc::svg_representation_values                                          *)
(***************************************************************************)
\* The value of a call that returned (Radius, LargeArcFlag, SweepFlag).
Values(radius, large, sweep) ==
    [ok |-> TRUE, radius |-> radius, large |-> large, sweep |-> sweep]

\* The outcome of a call that ran into panic!().
ValuesPanic == [ok |-> FALSE, radius |-> 0, large |-> FALSE, sweep |-> FALSE]

\* The decision on the signs of o0 and o1 (the nested if / else if / else).
Classify(radius, right, invert, o0, o1) ==
    IF o0 > 0 THEN
        IF o1 > 0 THEN Values(radius, ~right, Xor(~right, invert))
        ELSE IF o1 < 0 THEN Values(radius, ~right, Xor(right, invert))
        ELSE ValuesPanic
    ELSE IF o0 < 0 THEN
        IF o1 > 0 THEN Values(radius, right, Xor(~right, invert))
        ELSE IF o1 < 0 THEN Values(radius, right, Xor(right, invert))
        ELSE ValuesPanic
    ELSE
        IF o1 > 0 THEN Values(radius, FALSE, Xor(~right, invert))
        ELSE IF o1 < 0 THEN Values(radius, FALSE, Xor(right, invert))
        ELSE Values(radius, FALSE, FALSE)

\* The second point of o1: [sx + sy - cy, sy + cx - sx].
TangentPoint(arc) ==
    << arc.start[1] + arc.start[2] - arc.center[2],
       arc.start[2] + arc.center[1] - arc.start[1] >>

\* Mutant: the start == center test made before the start == end test.
SvgRepresentationValuesCenterFirst(arc, invert) ==
    LET radius == Hypot(arc.center[1] - arc.start[1], arc.center[2] - arc.start[2])
    IN  IF arc.start = arc.center THEN ValuesPanic
        ELSE IF arc.start = arc.end THEN Values(radius, TRUE, FALSE)
        ELSE Classify(radius, arc.right, invert,
                      Orient2d(arc.start, arc.center, arc.end),
                      Orient2d(arc.start, TangentPoint(arc), arc.end))

\* Mutant: the start == center test left out.
SvgRepresentationValuesNoReject(arc, invert) ==
    LET radius == Hypot(arc.center[1] - arc.start[1], arc.center[2] - arc.start[2])
    IN  IF arc.start = arc.end THEN Values(radius, TRUE, FALSE)
        ELSE Classify(radius, arc.right, invert,
                      Orient2d(arc.start, arc.center, arc.end),
                      Orient2d(arc.start, TangentPoint(arc), arc.end))

SvgRepresentationValues(arc, invert) ==
    LET radius == Hypot(arc.center[1] - arc.start[1], arc.center[2] - arc.start[2])
    IN  IF arc.start = arc.end THEN Values(radius, TRUE, FALSE)
        ELSE IF arc.start = arc.center THEN ValuesPanic
        ELSE Classify(radius, arc.right, invert,
                      Orient2d(arc.start, arc.center, arc.end),
                      Orient2d(arc.start, TangentPoint(arc), arc.end))

\* Arc::radius
Radius(arc) == Hypot(arc.start[1] - arc.center[1], arc.start[2] - arc.center[2])

(***************************************************************************)
(* impl SVGPath for Arc                                                    *)
(***************************************************************************)
\* A String that was returned, as its words; or the outcome of a panic.
Str(words) == [ok |-> TRUE, words |-> words]
StrPanic == [ok |-> FALSE, words |-> <<>>]

\* A PathLength that was returned (Scale units); or the outcome of a panic.
Length(len) == [ok |-> TRUE, len |-> len]
LengthPanic == [ok |-> FALSE, len |-> 0]

\* if flag { '1' } else { '0' }
FlagChar(flag) == IF flag THEN "1" ELSE "0"

\* Arc::svg_path_command: "A {radius} {radius} 0 {laf} {sf} {x} {y} "
ArcSvgPathCommand(arc, invert_y) ==
    LET v == SvgRepresentationValues(arc, invert_y)
    IN  IF ~v.ok THEN StrPanic
        ELSE Str(<< "A", DisplayFixed(v.radius), DisplayFixed(v.radius), "0",
                    FlagChar(v.large), FlagChar(v.sweep),
                    DisplayInt(arc.end[1]), DisplayInt(arc.end[2]) >>)

\* The chord, 2r and the "short" arc of Arc::length.
ArcShort(arc) ==
    LET r     == Radius(arc)
        two_r == 2 * r
        s     == Hypot(arc.start[1] - arc.end[1], arc.start[2] - arc.end[2])
    IN  IF s < two_r THEN (two_r * Asin((s * AngleScale) \div two_r)) \div AngleScale
        ELSE (r * Pi) \div AngleScale

\* Arc::length
ArcLength(arc) ==
    LET v     == SvgRepresentationValues(arc, FALSE)
        two_r == 2 * Radius(arc)
        short == ArcShort(arc)
    IN  IF ~v.ok THEN LengthPanic
        ELSE IF v.large THEN Length(two_r - short)
        ELSE Length(short)

(***************************************************************************)
(* The arc operations as a state machine: an Arc value and an invert flag  *)
(* are drawn, and each operation of Arc is applied to them.                *)
(***************************************************************************)
VARIABLES
    arc,      \* the Arc the operations are applied to
    invert,   \* the invert / invert_y argument
    res,      \* the outcome of the last operation on arc
    pieces,   \* ChannelPath.pieces
    added,    \* the arguments of the add calls since new(), in call order
    pres      \* the outcome of the last operation on the path

vars == <<arc, invert, res, pieces, added, pres>>

\* The outcome record of an operation op.
Outcome(op, ok, radius, large, sweep, words, len) ==
    [op |-> op, ok |-> ok, radius |-> radius, large |-> large, sweep |-> sweep,
     words |-> words, len |-> len]

NoOutcome == Outcome("none", TRUE, 0, FALSE, FALSE, <<>>, 0)

(***************************************************************************)
(* LineSegment, PathPiece, ChannelPath                                     *)
(***************************************************************************)
MkLine(s, e) == [kind |-> "LineSegment", start |-> s, end |-> e]

\* Mutant: a zero-length segment renders as nothing.
LineSegmentSvgPathCommandSkipNull(line, invert_y) ==
    IF line.start = line.end THEN Str(<<>>)
    ELSE Str(<< "L", DisplayInt(line.end[1]), DisplayInt(line.end[2]) >>)

\* LineSegment::svg_path_command: "L {x} {y} "
LineSegmentSvgPathCommand(line, invert_y) ==
    Str(<< "L", DisplayInt(line.end[1]), DisplayInt(line.end[2]) >>)

\* LineSegment::length
LineSegmentLength(line) ==
    Length(Hypot(line.start[1] - line.end[1], line.start[2] - line.end[2]))

\* The match on a piece in ChannelPath::svg_path_command.
PieceSvgPathCommand(piece, invert_y) ==
    IF piece.kind = "Arc" THEN ArcSvgPathCommand(piece, invert_y)
    ELSE LineSegmentSvgPathCommand(piece, invert_y)

\* Mutant: an arc is not measured.
PieceLengthLinesOnly(piece) ==
    IF piece.kind = "Arc" THEN Length(0) ELSE LineSegmentLength(piece)

\* The match on a piece in ChannelPath::length.
PieceLength(piece) ==
    IF piece.kind = "Arc" THEN ArcLength(piece) ELSE LineSegmentLength(piece)

\* ChannelPath::new
ChannelPathNew == << >>

\* Mutant: a piece that does not start where the last one ends is dropped.
PushContiguous(ps, piece) ==
    IF Len(ps) > 0 /\ ps[Len(ps)].end # piece.start THEN ps ELSE Append(ps, piece)

\* ChannelPath::add: self.pieces.push(piece)
Push(ps, piece) == Append(ps, piece)

RECURSIVE PushPieces(_, _, _, _)
\* The for loop of ChannelPath::svg_path_command, from piece i on: s.push_str of
\* each piece's command; a panicking piece unwinds the whole call.
PushPieces(s, ps, i, invert_y) ==
    IF i > Len(ps) THEN Str(s)
    ELSE LET c == PieceSvgPathCommand(ps[i], invert_y)
         IN  IF ~c.ok THEN StrPanic
             ELSE PushPieces(s \o c.words, ps, i + 1, invert_y)

\* "M {x} {y} " for the start of the first piece.
MoveTo(ps) == << "M", DisplayInt(ps[1].start[1]), DisplayInt(ps[1].start[2]) >>

\* Mutant: the loop starts after the piece the move-to was taken from.
ChannelPathSvgPathCommandSkipFirst(ps, invert_y) ==
    IF Len(ps) = 0 THEN Str(<<>>)
    ELSE PushPieces(MoveTo(ps), ps, 2, invert_y)

\* ChannelPath::svg_path_command
ChannelPathSvgPathCommand(ps, invert_y) ==
    IF Len(ps) = 0 THEN Str(<<>>)
    ELSE PushPieces(MoveTo(ps), ps, 1, invert_y)

RECURSIVE SumLengths(_, _, _)
\* iter().map(..).sum() of ChannelPath::length, from piece i on with the sum so
\* far; a panicking piece unwinds the whole call.
SumLengths(acc, ps, i) ==
    IF i > Len(ps) THEN Length(acc)
    ELSE LET l == PieceLength(ps[i])
         IN  IF ~l.ok THEN LengthPanic
             ELSE SumLengths(acc + l.len, ps, i + 1)

\* ChannelPath::length
ChannelPathLength(ps) == SumLengths(0, ps, 1)

(***************************************************************************)
(* The pieces a path is built from in the model: every LineSegment over    *)
(* three points that are not collinear, and every Arc over them whose      *)
(* center is the first of the three (quarter circles in both directions,   *)
(* full circles, and arcs that start at their center).                     *)
(***************************************************************************)
PathPoints == { <<0, 0>>, <<1, 0>>, <<0, 1>> }

PathCenters == { <<0, 0>> }

PathPieces ==
    [kind: {"LineSegment"}, start: PathPoints, end: PathPoints]
    \cup [kind: {"Arc"}, right: BOOLEAN, start: PathPoints, end: PathPoints,
          center: PathCenters]

\* The outcome record of an operation op on the path.
PathOutcome(op, ok, invert_y, words, len) ==
    [op |-> op, ok |-> ok, invert |-> invert_y, words |-> words, len |-> len]

(***************************************************************************)
(* Actions on an Arc.                                                      *)
(***************************************************************************)
\* arc.svg_representation_values(invert)
CallSvgRepresentationValues ==
    /\ LET v == SvgRepresentationValues(arc, invert)
       IN  res' = Outcome("values", v.ok, v.radius, v.large, v.sweep, <<>>, 0)
    /\ UNCHANGED <<arc, invert, pieces, added, pres>>

\* arc.svg_path_command(invert)
CallArcSvgPathCommand ==
    /\ LET c == ArcSvgPathCommand(arc, invert)
       IN  res' = Outcome("command", c.ok, 0, FALSE, FALSE, c.words, 0)
    /\ UNCHANGED <<arc, invert, pieces, added, pres>>

\* arc.length()
CallArcLength ==
    /\ LET l == ArcLength(arc)
       IN  res' = Outcome("length", l.ok, 0, FALSE, FALSE, <<>>, l.len)
    /\ UNCHANGED <<arc, invert, pieces, added, pres>>

(***************************************************************************)
(* Actions on a ChannelPath.                                               *)
(***************************************************************************)
\* ChannelPath::new()
CallNew ==
    /\ pieces' = ChannelPathNew
    /\ added' = <<>>
    /\ pres' = PathOutcome("new", TRUE, FALSE, <<>>, 0)
    /\ UNCHANGED <<arc, invert, res>>

\* path.add(piece)
CallAdd(piece) ==
    /\ Len(added) < MaxPieces
    /\ pieces' = Push(pieces, piece)
    /\ added' = Append(added, piece)
    /\ pres' = PathOutcome("add", TRUE, FALSE, <<>>, 0)
    /\ UNCHANGED <<arc, invert, res>>

\* path.svg_path_command(invert_y)
CallPathSvgPathCommand(invert_y) ==
    /\ LET c == ChannelPathSvgPathCommand(pieces, invert_y)
       IN  pres' = PathOutcome("command", c.ok, invert_y, c.words, 0)
    /\ UNCHANGED <<arc, invert, res, pieces, added>>

\* path.length()
CallPathLength ==
    /\ LET l == ChannelPathLength(pieces)
       IN  pres' = PathOutcome("length", l.ok, FALSE, <<>>, l.len)
    /\ UNCHANGED <<arc, invert, res, pieces, added>>

(***************************************************************************)
(* Specifications.                                                         *)
(***************************************************************************)
InitPathPart ==
    /\ pieces = ChannelPathNew
    /\ added = <<>>
    /\ pres = PathOutcome("new", TRUE, FALSE, <<>>, 0)

\* The arc operations on every Arc of Arcs, with either value of invert.
InitArc ==
    /\ arc \in Arcs
    /\ invert \in BOOLEAN
    /\ res = NoOutcome
    /\ InitPathPart

NextArc ==
    \/ CallSvgRepresentationValues
    \/ CallArcSvgPathCommand
    \/ CallArcLength

SpecArc == InitArc /\ [][NextArc]_vars

\* A path built by new() and add(), rendered and measured.
InitPath ==
    /\ arc = Case1Arc
    /\ invert = FALSE
    /\ res = NoOutcome
    /\ InitPathPart

NextPath ==
    \/ CallNew
    \/ \E piece \in PathPieces : CallAdd(piece)
    \/ \E invert_y \in BOOLEAN : CallPathSvgPathCommand(invert_y)
    \/ CallPathLength

SpecPath == InitPath /\ [][NextPath]_vars

(***************************************************************************)
(* Claims about Arc (checked under SpecArc).                               *)
(***************************************************************************)
\* o0 and o1 of the arc of the state.
O0 == Orient2d(arc.start, arc.center, arc.end)
O1 == Orient2d(arc.start,
               << arc.start[1] + arc.start[2] - arc.center[2],
                  arc.start[2] + arc.center[1] - arc.start[1] >>,
               arc.end)

\* distance(center, start), Scale units.
DistCenterStart == Hypot(arc.center[1] - arc.start[1], arc.center[2] - arc.start[2])

\* res is a returned triple with these flags and the radius distance(center, start).
Returned(large, sweep) ==
    /\ res.ok
    /\ res.radius = DistCenterStart
    /\ res.large = large
    /\ res.sweep = sweep

\* C1: for an Arc with start != end and start != center, and either invert,
\* svg_representation_values returns radius = distance(center, start) and the
\* flags of the table on the signs of o0 and o1, and aborts when o1 = 0 with
\* o0 != 0; the four quarter circles of radius 45 with invert = true give
\* (false,false), (true,false), (false,true), (true,true).
C1_DecisionTable ==
    (res.op = "values" /\ arc.start # arc.end /\ arc.start # arc.center) =>
        /\ (O0 > 0 /\ O1 > 0) => Returned(~arc.right, (~arc.right) # invert)
        /\ (O0 > 0 /\ O1 < 0) => Returned(~arc.right, arc.right # invert)
        /\ (O0 < 0 /\ O1 > 0) => Returned(arc.right, (~arc.right) # invert)
        /\ (O0 < 0 /\ O1 < 0) => Returned(arc.right, arc.right # invert)
        /\ (O0 = 0 /\ O1 > 0) => Returned(FALSE, (~arc.right) # invert)
        /\ (O0 = 0 /\ O1 < 0) => Returned(FALSE, arc.right # invert)
        /\ (O0 = 0 /\ O1 = 0) => Returned(FALSE, FALSE)
        /\ (O0 # 0 /\ O1 = 0) => ~res.ok
        /\ invert =>
            /\ arc = Case1Arc => (res.ok /\ res.radius = 45 * Scale /\ ~res.large /\ ~res.sweep)
            /\ arc = Case2Arc => (res.ok /\ res.radius = 45 * Scale /\ res.large /\ ~res.sweep)
            /\ arc = Case3Arc => (res.ok /\ res.radius = 45 * Scale /\ ~res.large /\ res.sweep)
            /\ arc = Case4Arc => (res.ok /\ res.radius = 45 * Scale /\ res.large /\ res.sweep)

\* The second test case classified: a large arc, sweep flag off.
C1_Witness ==
    /\ res.op = "values" /\ arc = Case2Arc /\ invert
    /\ res.ok /\ res.large /\ ~res.sweep /\ res.radius = 45 * Scale

\* A grid arc on which the classification aborts (end on the tangent at start).
C1_WitnessAbort ==
    /\ res.op = "values" /\ arc.start # arc.end /\ arc.start # arc.center
    /\ O0 # 0 /\ O1 = 0 /\ ~res.ok

\* The classification of the arc of the state with the other value of invert.
OtherInvert == SvgRepresentationValues(arc, ~invert)

\* C2, as stated: whenever the classification returns, the call with the other
\* value of invert returns the opposite sweep flag, the same large-arc flag and
\* the same radius.
C2_InvertFlipsSweep_Original ==
    (res.op = "values" /\ res.ok) =>
        /\ OtherInvert.ok
        /\ OtherInvert.sweep # res.sweep
        /\ OtherInvert.large = res.large
        /\ OtherInvert.radius = res.radius

\* C2, amended: the same for every Arc with start != end on which the
\* classification returns (a full circle, start == end, has sweep = false for
\* either value of invert).
C2_InvertFlipsSweep ==
    (res.op = "values" /\ res.ok /\ arc.start # arc.end) =>
        /\ OtherInvert.ok
        /\ OtherInvert.sweep # res.sweep
        /\ OtherInvert.large = res.large
        /\ OtherInvert.radius = res.radius

\* An arc that is no full circle, classified with invert on, sweep flag on.
C2_Witness ==
    /\ res.op = "values" /\ res.ok /\ arc.start # arc.end /\ invert
    /\ res.sweep /\ ~OtherInvert.sweep /\ res.large

\* The classification of the arc that differs from the arc of the state in right only.
OtherRight == SvgRepresentationValues([arc EXCEPT !.right = ~arc.right], invert)

\* C3, as stated: whenever the classification returns, the arc with the other
\* value of right has the complementary sweep flag, and the complementary
\* large-arc flag unless o0 = 0, where the large-arc flag is false for both.
C3_RightComplements_Original ==
    (res.op = "values" /\ res.ok) =>
        /\ OtherRight.ok
        /\ OtherRight.sweep # res.sweep
        /\ (O0 # 0) => (OtherRight.large # res.large)
        /\ (O0 = 0) => (~OtherRight.large /\ ~res.large)

\* C3, amended: the same for every Arc with start != end on which the
\* classification returns (a full circle has large = true and sweep = false for
\* either value of right).
C3_RightComplements ==
    (res.op = "values" /\ res.ok /\ arc.start # arc.end) =>
        /\ OtherRight.ok
        /\ OtherRight.sweep # res.sweep
        /\ (O0 # 0) => (OtherRight.large # res.large)
        /\ (O0 = 0) => (~OtherRight.large /\ ~res.large)

\* Both cases of the amended claim: a clockwise arc of a half circle (o0 = 0) ...
C3_WitnessCollinear ==
    /\ res.op = "values" /\ res.ok /\ arc.start # arc.end /\ O0 = 0
    /\ arc.right /\ ~res.large /\ ~OtherRight.large /\ res.sweep # OtherRight.sweep

\* ... and one with o0 != 0, large for one direction and small for the other.
C3_Witness ==
    /\ res.op = "values" /\ res.ok /\ arc.start # arc.end /\ O0 # 0
    /\ arc.right /\ res.large /\ ~OtherRight.large /\ res.sweep # OtherRight.sweep

\* C4: for an Arc with start == end, svg_representation_values returns
\* large-arc = true, sweep = false and radius = distance(center, start) for
\* either right and either invert, and svg_path_command emits the flags 1 0.
C4_FullCircle ==
    (arc.start = arc.end) =>
        /\ (res.op = "values") => Returned(TRUE, FALSE)
        /\ (res.op = "command") =>
              /\ res.ok
              /\ Len(res.words) = 8
              /\ res.words[1] = "A"
              /\ res.words[5] = "1"
              /\ res.words[6] = "0"

\* A full circle around its own start (start == end == center) rendered with
\* invert on.
C4_Witness ==
    /\ arc.start = arc.end /\ arc.start = arc.center /\ invert /\ arc.right
    /\ res.op = "command" /\ res.ok /\ res.words[5] = "1" /\ res.words[6] = "0"

\* A full circle of radius 1 classified.
C4_WitnessValues ==
    /\ arc.start = arc.end /\ arc.start # arc.center /\ invert
    /\ res.op = "values" /\ res.ok /\ res.large /\ ~res.sweep /\ res.radius = Scale

\* C5, as stated: every Arc whose start equals its center is rejected,
\* svg_representation_values, svg_path_command and length abort whatever end,
\* right and invert are.
C5_StartIsCenterRejected_Original ==
    (arc.start = arc.center /\ res.op \in {"values", "command", "length"}) => ~res.ok

\* C5, amended: every Arc whose start equals its center and whose end differs
\* from its start is rejected by the three operations (with end == start the
\* full-circle return comes first).
C5_StartIsCenterRejected ==
    (arc.start = arc.center /\ arc.end # arc.start
        /\ res.op \in {"values", "command", "length"}) => ~res.ok

\* An arc from its center to another point, whose length aborted.
C5_Witness ==
    /\ arc.start = arc.center /\ arc.end # arc.start
    /\ res.op = "length" /\ ~res.ok

\* 2 * pi * r and "short" of the arc of the state, computed as the claim states
\* them (Scale units).
TwoPiR == (2 * DistCenterStart * Pi) \div AngleScale

ChordLength == Hypot(arc.start[1] - arc.end[1], arc.start[2] - arc.end[2])

ClaimedShort ==
    IF ChordLength < 2 * DistCenterStart
    THEN (2 * DistCenterStart * Asin((ChordLength * AngleScale) \div (2 * DistCenterStart)))
             \div AngleScale
    ELSE (DistCenterStart * Pi) \div AngleScale

\* C6: when the classification returns, Arc::length is short for a small arc
\* and 2 * pi * r - short for a large one.
C6_ArcLength ==
    (res.op = "length" /\ res.ok) =>
        res.len = IF SvgRepresentationValues(arc, FALSE).large
                  THEN TwoPiR - ClaimedShort
                  ELSE ClaimedShort

\* C6, in part: the small arcs have the claimed length.
C6_SmallArcLength ==
    (res.op = "length" /\ res.ok /\ ~SvgRepresentationValues(arc, FALSE).large) =>
        res.len = ClaimedShort

(***************************************************************************)
(* Claims about ChannelPath and LineSegment (checked under SpecPath).      *)
(***************************************************************************)
\* The positions of the command letters in a rendered string.
LetterPositions(words) == { i \in 1..Len(words) : words[i] \in {"M", "L", "A"} }

\* The k-th smallest member of a set of positions.
NthPosition(S, k) == CHOOSE i \in S : Cardinality({ j \in S : j < i }) = k - 1

\* The tokens of a rendered string: each runs from a command letter up to the
\* next command letter (or the end).
Tokens(words) ==
    LET S == LetterPositions(words)
        n == Cardinality(S)
    IN  [ k \in 1..n |->
            SubSeq(words, NthPosition(S, k),
                   IF k < n THEN NthPosition(S, k + 1) - 1 ELSE Len(words)) ]

\* Whether the command of a piece aborts under invert_y.
PieceAborts(piece, invert_y) ==
    piece.kind = "Arc" /\ ~SvgRepresentationValues(piece, invert_y).ok

\* C7: ChannelPath::svg_path_command returns the empty string for a path with
\* no pieces; for n >= 1 pieces none of which aborts it returns one move-to
\* token M x y for the start of pieces[0], followed by exactly n tokens, the
\* i-th an L token ending at the LineSegment's end or the A token of the Arc
\* (ending at its end, computed with the same invert_y), in sequence order.
C7_PathCommand ==
    (pres.op = "command") =>
        /\ (pieces = <<>>) => (pres.ok /\ pres.words = <<>>)
        /\ (pieces # <<>> /\ \A i \in 1..Len(pieces) : ~PieceAborts(pieces[i], pres.invert)) =>
              /\ pres.ok
              /\ Len(pres.words) >= 3
              /\ pres.words[1] = "M"
              /\ LET t == Tokens(pres.words)
                 IN  /\ Len(t) = Len(pieces) + 1
                     /\ t[1] = << "M", DisplayInt(pieces[1].start[1]),
                                       DisplayInt(pieces[1].start[2]) >>
                     /\ \A i \in 1..Len(pieces) :
                           LET p  == pieces[i]
                               tk == t[i + 1]
                           IN  /\ tk[Len(tk) - 1] = DisplayInt(p.end[1])
                               /\ tk[Len(tk)] = DisplayInt(p.end[2])
                               /\ (p.kind = "LineSegment") => (Len(tk) = 3 /\ tk[1] = "L")
                               /\ (p.kind = "Arc") =>
                                     /\ Len(tk) = 8
                                     /\ tk[1] = "A"
                                     /\ tk = ArcSvgPathCommand(p, pres.invert).words

\* A line from (0,1) to (1,0) followed by a quarter circle back, rendered with
\* invert_y on: M, L, A.
C7_Witness ==
    /\ pres.op = "command" /\ pres.ok /\ pres.invert
    /\ Len(pieces) = 2
    /\ pieces[1] = MkLine(<<0, 1>>, <<1, 0>>)
    /\ pieces[2] = MkArc(FALSE, <<1, 0>>, <<0, 1>>, <<0, 0>>)
    /\ pres.words = << "M", "0", "1", "L", "1", "0",
                       "A", "1", "1", "0", "0", "1", "0", "1" >>

\* The empty path rendered.
C7_WitnessEmpty == pres.op = "command" /\ pieces = <<>> /\ pres.words = <<>>

\* The own length of a piece: LineSegment::length or Arc::length.
OwnLength(piece) ==
    IF piece.kind = "LineSegment" THEN LineSegmentLength(piece) ELSE ArcLength(piece)

RECURSIVE SumOfOwnLengths(_)
SumOfOwnLengths(ps) ==
    IF ps = <<>> THEN 0 ELSE SumOfOwnLengths(SubSeq(ps, 1, Len(ps) - 1)) + OwnLength(ps[Len(ps)]).len

\* C8: ChannelPath::length is the sum of the pieces' own lengths (when none of
\* them aborts); it is 0 for the empty path and the piece's own length for a
\* path of one piece.
C8_PathLength ==
    (pres.op = "length") =>
        /\ (pieces = <<>>) => (pres.ok /\ pres.len = 0)
        /\ (\A i \in 1..Len(pieces) : OwnLength(pieces[i]).ok) =>
              /\ pres.ok
              /\ pres.len = SumOfOwnLengths(pieces)
              /\ (Len(pieces) = 1) => (pres.len = OwnLength(pieces[1]).len)

\* A line of length sqrt(2) and a quarter circle of radius 1 measured together.
C8_Witness ==
    /\ pres.op = "length" /\ pres.ok
    /\ Len(pieces) = 2
    /\ pieces[1].kind = "LineSegment" /\ pieces[2].kind = "Arc"
    /\ OwnLength(pieces[1]).len = 141
    /\ OwnLength(pieces[2]).len > 0
    /\ pres.len = 141 + OwnLength(pieces[2]).len

\* The zero-length LineSegments of the path, and all its LineSegments.
NullLines == { i \in 1..Len(pieces) :
                 pieces[i].kind = "LineSegment" /\ pieces[i].start = pieces[i].end }

Lines == { i \in 1..Len(pieces) : pieces[i].kind = "LineSegment" }

\* The number of line-to tokens of the rendered path.
LineTos == Cardinality({ i \in 1..Len(pres.words) : pres.words[i] = "L" })

\* C9, as stated: a zero-length LineSegment has length 0 and adds no line-to
\* token to the rendered string of the path that contains it.
C9_NullSegment_Original ==
    /\ (pres.op = "length" /\ Len(pieces) = 1 /\ NullLines = {1}) => (pres.ok /\ pres.len = 0)
    /\ (pres.op = "command" /\ pres.ok) =>
          LineTos = Cardinality(Lines \ NullLines)

\* C9, amended: a zero-length LineSegment has length 0, and its command is the
\* line-to token L x y for its end point (which is its start point) like that
\* of any other LineSegment: the rendered path holds one line-to token for
\* each of its LineSegments, the zero-length ones included.
C9_NullSegment ==
    /\ (pres.op = "length" /\ Len(pieces) = 1 /\ NullLines = {1}) => (pres.ok /\ pres.len = 0)
    /\ (pres.op = "command" /\ pres.ok) =>
          /\ LineTos = Cardinality(Lines)
          /\ \A i \in NullLines :
                Tokens(pres.words)[i + 1] = << "L", DisplayInt(pieces[i].start[1]),
                                                    DisplayInt(pieces[i].start[2]) >>

\* A path of a zero-length segment at (1,0) and a proper one, rendered.
C9_Witness ==
    /\ pres.op = "command" /\ pres.ok
    /\ Len(pieces) = 2 /\ NullLines = {1} /\ Lines = {1, 2}
    /\ pres.words[1] = "M" /\ pres.words[4] = "L" /\ pres.words[7] = "L"
    /\ pres.words[5] = "1" /\ pres.words[6] = "0"

\* A zero-length segment measured.
C9_WitnessLength ==
    pres.op = "length" /\ Len(pieces) = 1 /\ NullLines = {1} /\ pres.len = 0

\* C10: new() yields the empty sequence, and after new() and add(p1), ...,
\* add(pn) the pieces are <p1, ..., pn> in call order: no piece is rejected,
\* reordered or changed, contiguous with its predecessor or not.
C10_AddAppends ==
    /\ pieces = added
    /\ (pres.op = "new") => (pieces = <<>>)

\* Two different pieces added, the second not starting where the first ends.
C10_Witness ==
    /\ pres.op = "add"
    /\ Len(pieces) = 2 /\ pieces = added
    /\ pieces[1] # pieces[2]
    /\ pieces[1].end # pieces[2].start

====
